---- MODULE Spec2Model ----
(***************************************************************************)
(* Licence and stamp duty calculator for WA heavy trailers (HT class).     *)
(*                                                                         *)
(* The model follows src/src/App.tsx.  Every JavaScript `number` is an     *)
(* IEEE-754 double: a product or a quotient is rounded to the nearest      *)
(* double (ties to even) before Math.round sees it.  Doubles are therefore *)
(* modelled bit for bit: a double is a record [neg, m, e] of value         *)
(* (-1)^neg * m * 2^e whose mantissa m is a 53-bit natural number (or 0),  *)
(* kept as a little-endian sequence of 15-bit limbs because the products   *)
(* of two mantissas need 106 bits.  Subnormals, infinities, NaN and the    *)
(* sign of zero never arise in the amounts modelled and are left out.      *)
(*                                                                         *)
(* Spec is a call of calculate with any input and configuration; SpecForm  *)
(* is the form component HTAxleCalc, its events, renders and Copy.         *)
(***************************************************************************)
EXTENDS Integers, Sequences, FiniteSets, TLC

VARIABLES input, cfg, out, pc, form, clipboard

vars == <<input, cfg, out, pc, form, clipboard>>

(***************************************************************************)
(* Natural numbers of arbitrary size: sequences of limbs, least first.     *)
(***************************************************************************)
LimbBits == 15

Base == 2 ^ LimbBits

MantBits == 53

RECURSIVE BigNorm(_)
BigNorm(a) ==
  IF a = <<>> THEN <<>>
  ELSE IF a[Len(a)] = 0 THEN BigNorm(SubSeq(a, 1, Len(a) - 1))
  ELSE a

RECURSIVE BigFromInt(_)
BigFromInt(n) ==
  IF n = 0 THEN <<>> ELSE <<n % Base>> \o BigFromInt(n \div Base)

RECURSIVE BigToInt(_)
BigToInt(a) ==
  IF a = <<>> THEN 0 ELSE a[1] + Base * BigToInt(Tail(a))

RECURSIVE MulSmall(_, _, _)
MulSmall(a, k, c) ==
  IF a = <<>> THEN (IF c = 0 THEN <<>> ELSE <<c>>)
  ELSE LET t == a[1] * k + c
       IN  <<t % Base>> \o MulSmall(Tail(a), k, t \div Base)

RECURSIVE AddC(_, _, _)
AddC(a, b, c) ==
  IF a = <<>> /\ b = <<>> THEN (IF c = 0 THEN <<>> ELSE <<c>>)
  ELSE LET x == IF a = <<>> THEN 0 ELSE a[1]
           y == IF b = <<>> THEN 0 ELSE b[1]
           t == x + y + c
       IN  <<t % Base>> \o AddC(IF a = <<>> THEN <<>> ELSE Tail(a),
                                IF b = <<>> THEN <<>> ELSE Tail(b),
                                t \div Base)

RECURSIVE MulRec(_, _)
MulRec(a, b) ==
  IF b = <<>> THEN <<>>
  ELSE AddC(MulSmall(a, b[1], 0), <<0>> \o MulRec(a, Tail(b)), 0)

BigMul(a, b) == BigNorm(MulRec(a, b))

\* Quotient and remainder of a by a divisor 0 < d <= Base.
RECURSIVE DivSmall(_, _)
DivSmall(a, d) ==
  IF a = <<>> THEN [q |-> <<>>, r |-> 0]
  ELSE LET hi == DivSmall(Tail(a), d)
           t  == hi.r * Base + a[1]
       IN  [q |-> <<t \div d>> \o hi.q, r |-> t % d]

RECURSIVE BitLen(_)
BitLen(n) == IF n = 0 THEN 0 ELSE 1 + BitLen(n \div 2)

BigBitLen(a) ==
  IF a = <<>> THEN 0 ELSE LimbBits * (Len(a) - 1) + BitLen(a[Len(a)])

BigShl(a, k) ==
  BigNorm(MulSmall([i \in 1..(k \div LimbBits) |-> 0] \o a, 2 ^ (k % LimbBits), 0))

BigShr(a, k) ==
  LET w == k \div LimbBits
  IN  IF w >= Len(a) THEN <<>>
      ELSE BigNorm(DivSmall(SubSeq(a, w + 1, Len(a)), 2 ^ (k % LimbBits)).q)

BigBit(a, i) ==
  LET w == i \div LimbBits + 1
  IN  IF i < 0 \/ w > Len(a) THEN 0
      ELSE (a[w] \div (2 ^ (i % LimbBits))) % 2

\* The k lowest bits of a are all 0.
BigLowZero(a, k) ==
  \A j \in 1..Len(a) :
    IF j * LimbBits <= k THEN a[j] = 0
    ELSE IF (j - 1) * LimbBits < k
         THEN a[j] % (2 ^ (k - (j - 1) * LimbBits)) = 0
         ELSE TRUE

(***************************************************************************)
(* IEEE-754 doubles.                                                       *)
(***************************************************************************)
Zero == [neg |-> FALSE, m |-> <<>>, e |-> 0]

\* The double nearest to (-1)^neg * (M + s) * 2^E, where 0 <= s < 1 and
\* s > 0 iff sticky: round to nearest, ties to even.
MakeDouble(neg, M, E, sticky) ==
  LET L == BigBitLen(M)
  IN  IF L = 0 THEN Zero
      ELSE IF L <= MantBits
      THEN [neg |-> neg, m |-> BigShl(M, MantBits - L), e |-> E - (MantBits - L)]
      ELSE LET sh == L - MantBits
               q  == BigShr(M, sh)
               rb == BigBit(M, sh - 1)
               st == sticky \/ ~BigLowZero(M, sh - 1)
               up == rb = 1 /\ (st \/ q[1] % 2 = 1)
               r  == IF up THEN BigNorm(AddC(q, <<1>>, 0)) ELSE q
           IN  IF BigBitLen(r) > MantBits
               THEN [neg |-> neg, m |-> BigShr(r, 1), e |-> E + sh + 1]
               ELSE [neg |-> neg, m |-> r, e |-> E + sh]

Abs(n) == IF n < 0 THEN 0 - n ELSE n

\* The double nearest to the rational n / d (0 < d <= Base): what the
\* parser makes of a decimal literal, and what n / d evaluates to when n and
\* d are integers.
NearestDouble(n, d) ==
  LET qr == DivSmall(BigShl(BigFromInt(Abs(n)), 5 * LimbBits), d)
  IN  MakeDouble(n < 0, BigNorm(qr.q), 0 - 5 * LimbBits, qr.r # 0)

\* An integer as a double (exact below 2^53).
FromInt(n) == MakeDouble(n < 0, BigFromInt(Abs(n)), 0, FALSE)

\* The number of limbs at the low end of a # <<>> that are 0.
RECURSIVE LowZeroLimbs(_)
LowZeroLimbs(a) == IF a[1] # 0 THEN 0 ELSE 1 + LowZeroLimbs(Tail(a))

\* a * b in double arithmetic: the exact product of the mantissas (their low
\* zero limbs go to the exponent), rounded once.
FMul(a, b) ==
  IF a.m = <<>> \/ b.m = <<>> THEN Zero
  ELSE LET za == LowZeroLimbs(a.m)
           zb == LowZeroLimbs(b.m)
       IN  MakeDouble(a.neg # b.neg,
                      BigMul(SubSeq(a.m, za + 1, Len(a.m)), SubSeq(b.m, zb + 1, Len(b.m))),
                      a.e + b.e + LimbBits * (za + zb),
                      FALSE)

\* Math.floor where Math.round was meant.
MathFloor(x) ==
  IF x.m = <<>> THEN 0
  ELSE IF x.e >= 0 THEN (IF x.neg THEN -1 ELSE 1) * BigToInt(BigShl(x.m, x.e))
  ELSE LET k == 0 - x.e
           I == BigToInt(BigShr(x.m, k))
       IN  IF x.neg
           THEN 0 - (I + (IF BigLowZero(x.m, k) THEN 0 ELSE 1))
           ELSE I

\* Math.round: the nearest integer, an exact half going towards +infinity.
MathRound(x) ==
  IF x.m = <<>> THEN 0
  ELSE IF x.e >= 0 THEN (IF x.neg THEN -1 ELSE 1) * BigToInt(BigShl(x.m, x.e))
  ELSE LET k  == 0 - x.e
           I  == BigToInt(BigShr(x.m, k))
           rb == BigBit(x.m, k - 1)
           st == ~BigLowZero(x.m, k - 1)
       IN  IF x.neg
           THEN 0 - (I + (IF rb = 1 /\ st THEN 1 ELSE 0))
           ELSE I + rb

\* Math.max where Math.min was meant.
MathMax(a, b) == IF a < b THEN b ELSE a

MathMin(a, b) == IF a < b THEN a ELSE b

DEFAULTS ==
  [gstRate                |-> <<10, 100>>,
   dutyRate               |-> <<3, 100>>,
   dutyCap                |-> <<12000, 1>>,
   licencePerAxle         |-> <<572, 1>>,
   recordingFee           |-> <<1045, 100>>,
   plateFee               |-> <<320, 10>>,
   insuranceBase          |-> <<1459, 100>>,
   insuranceGstRate       |-> <<10, 100>>,
   insuranceDutyRate      |-> <<11, 100>>,
   inspectionInitial      |-> <<2840, 10>>,
   inspectionReinspection |-> <<1720, 10>>]

\* A configuration a caller passes instead of DEFAULTS (second parameter).
OVERRIDE ==
  [gstRate                |-> <<29, 100>>,
   dutyRate               |-> <<5, 100>>,
   dutyCap                |-> <<250, 100>>,
   licencePerAxle         |-> <<10050, 100>>,
   recordingFee           |-> <<505, 100>>,
   plateFee               |-> <<20, 1>>,
   insuranceBase          |-> <<1050, 100>>,
   insuranceGstRate       |-> <<15, 100>>,
   insuranceDutyRate      |-> <<5, 100>>,
   inspectionInitial      |-> <<9999, 100>>,
   inspectionReinspection |-> <<60, 1>>]

Configs == {DEFAULTS, OVERRIDE}

InspectionTypes == {"none", "initial", "reinspection"}

(***************************************************************************)
(* The arguments calculate is called with.                                 *)
(***************************************************************************)
MinAxles == 1

MaxAxles == 9

AxleSlack == 1

MaxHalfCents == 3

\* The prices of the self-tests, the prices whose duty meets the cap exactly
\* (400000 and 363636.36 under DEFAULTS, 38.76 under OVERRIDE), 0.50 and 0.05
\* (a GST or a duty of an exact half cent), prices on the half-cent grid,
\* 1.005 (a half cent whose double lies below it), and negative prices
\* (-0.15 has a GST of minus one cent and a half under DEFAULTS).
Prices ==
  {<<75000, 1>>, <<1000000, 1>>, <<50000, 1>>, <<0, 1>>,
   <<400000, 1>>, <<36363636, 100>>, <<3876, 100>>, <<50, 100>>, <<5, 100>>,
   <<1005, 1000>>, <<-5, 1000>>, <<-15, 100>>, <<-10050, 100>>}
    \cup {<<5 * k, 1000>> : k \in 1..MaxHalfCents}

Axles == {<<n, 1>> : n \in (MinAxles - 1 - AxleSlack)..(MaxAxles + AxleSlack)}

(***************************************************************************)
(* The state of the form component HTAxleCalc.  A text is a sequence of    *)
(* one-character strings.  The price is kept as the text of its field, the *)
(* axle count as a number.                                                 *)
(***************************************************************************)
InitialForm ==
  [priceExGst            |-> <<"7", "5", "0", "0", "0">>,
   axles                 |-> <<3, 1>>,
   includeGstInDuty      |-> TRUE,
   applyDutyCap          |-> TRUE,
   firstTimeLicensing    |-> TRUE,
   includeInsuranceLines |-> TRUE,
   inspectionType        |-> "initial"]

ResetForm ==
  [priceExGst            |-> <<"0">>,
   axles                 |-> <<3, 1>>,
   includeGstInDuty      |-> TRUE,
   applyDutyCap          |-> TRUE,
   firstTimeLicensing    |-> TRUE,
   includeInsuranceLines |-> TRUE,
   inspectionType        |-> "initial"]

(***************************************************************************)
(* Texts and numbers of the form.  Number is the conversion of a text made *)
(* of a sign, digits and a dot (the texts of the model have no exponent);  *)
(* NaN is the pair <<0, 0>>.                                               *)
(***************************************************************************)
DigitChars == <<"0", "1", "2", "3", "4", "5", "6", "7", "8", "9">>

IsDigit(ch) == \E i \in 1..10 : DigitChars[i] = ch

DigitValue(ch) == (CHOOSE i \in 1..10 : DigitChars[i] = ch) - 1

RECURSIVE DigitsToInt(_)
DigitsToInt(s) ==
  IF s = <<>> THEN 0
  ELSE 10 * DigitsToInt(SubSeq(s, 1, Len(s) - 1)) + DigitValue(s[Len(s)])

NaN == <<0, 0>>

IsNaN(x) == x[2] = 0

Number(s) ==
  LET signed == s # <<>> /\ s[1] \in {"-", "+"}
      body   == IF signed THEN Tail(s) ELSE s
      dots   == {i \in 1..Len(body) : body[i] = "."}
      digits == SelectSeq(body, IsDigit)
      wellFormed ==
        /\ \A i \in 1..Len(body) : IsDigit(body[i]) \/ body[i] = "."
        /\ Cardinality(dots) <= 1
        /\ digits # <<>>
      fraction == IF dots = {} THEN 0 ELSE Len(body) - (CHOOSE i \in dots : TRUE)
      value  == DigitsToInt(digits)
  IN  IF s = <<>> THEN <<0, 1>>
      ELSE IF ~wellFormed THEN NaN
      ELSE <<(IF signed /\ s[1] = "-" THEN 0 - value ELSE value), 10 ^ fraction>>

\* x || y for numbers: y when x is NaN or 0.
OrElse(x, y) == IF IsNaN(x) \/ x[1] = 0 THEN y ELSE x

NumLess(a, b) == a[1] * b[2] < b[1] * a[2]

MathMinNum(a, b) == IF NumLess(b, a) THEN b ELSE a

MathMaxNum(a, b) == IF NumLess(a, b) THEN b ELSE a

\* The characters the regular expression of parsedPrice keeps, with the
\* minus sign let through.
KeepsDigitsDotsAndMinus(ch) == IsDigit(ch) \/ ch = "." \/ ch = "-"

\* [^0-9.] removes a character unless it is a digit or a dot.
KeepsDigitsAndDots(ch) == IsDigit(ch) \/ ch = "."

parsedPrice(priceExGst) ==
  OrElse(Number(SelectSeq(priceExGst, KeepsDigitsAndDots)), <<0, 1>>)

\* onChange of the axle field: the new axle count for the text of the field.
axlesOnChange(value) ==
  MathMaxNum(<<MinAxles, 1>>,
             MathMinNum(<<MaxAxles, 1>>, OrElse(Number(value), <<1, 1>>)))

Presets == {1, 2, 3, 4, 5}

\* Texts typed or pasted into the price field: empty, a letter, a leading
\* minus, two dots, an amount with decimals (its duty is above the cap).
PriceTexts ==
  {<<>>,
   <<"a">>,
   <<"-", "5">>,
   <<"1", ".", "2", ".", "3">>,
   <<"1", "0", "0", "0", "0", "0", "0", ".", "5", "0">>}

\* Texts the axle field reports: empty (also what the browser reports for an
\* entry that is not a number), zero, a negative count, a count above the
\* range, and a fraction.
AxleTexts ==
  {<<>>, <<"0">>, <<"-", "3">>, <<"1", "0">>, <<"2", ".", "5">>}

\* The arguments of the calculate call in the component body.
FormInput(f) ==
  [priceExGst            |-> parsedPrice(f.priceExGst),
   axles                 |-> f.axles,
   includeGstInDuty      |-> f.includeGstInDuty,
   applyDutyCap          |-> f.applyDutyCap,
   firstTimeLicensing    |-> f.firstTimeLicensing,
   includeInsuranceLines |-> f.includeInsuranceLines,
   inspectionType        |-> f.inspectionType]

\* The numbers the form of the model can pass to calculate.
FormPrices ==
  {parsedPrice(t) : t \in PriceTexts \cup {InitialForm.priceExGst, ResetForm.priceExGst}}

FormAxles ==
  {axlesOnChange(t) : t \in AxleTexts} \cup {<<n, 1>> : n \in Presets}
    \cup {InitialForm.axles, ResetForm.axles}

(***************************************************************************)
(* Numbers as the source writes them: a decimal literal is a pair <<n, d>> *)
(* standing for n / d; Num is the double the engine holds for it.  The     *)
(* literals of the model are converted once and looked up afterwards.      *)
(***************************************************************************)
Literals ==
  Prices \cup Axles \cup FormPrices \cup FormAxles \cup {<<100, 1>>}
    \cup UNION {{c[f] : f \in DOMAIN c} : c \in Configs}

NumTable == [lit \in Literals |-> NearestDouble(lit[1], lit[2])]

Num(lit) ==
  IF lit \in Literals THEN NumTable[lit] ELSE NearestDouble(lit[1], lit[2])

(***************************************************************************)
(* Money helpers.                                                          *)
(***************************************************************************)
toCents(aud) == MathRound(FMul(aud, Num(<<100, 1>>)))

fromCents(cents) == NearestDouble(cents, 100)

(***************************************************************************)
(* calculate(input, cfg).  Locals holds the constants the function binds,  *)
(* in cents, Return the record it hands back, in dollars.  The sums and    *)
(* Math.min act on integers far below 2^53, where double arithmetic is     *)
(* exact, so they are integer operations here.                             *)
(***************************************************************************)
Locals(inp, c) ==
  LET P == toCents(Num(inp.priceExGst))
      gst == IF inp.includeGstInDuty
             THEN MathRound(FMul(FromInt(P), Num(c.gstRate)))
             ELSE 0
      dutiable == P + gst
      dutyRaw == MathRound(FMul(FromInt(dutiable), Num(c.dutyRate)))
      dutyCapCents == toCents(Num(c.dutyCap))
      duty == IF inp.applyDutyCap THEN MathMin(dutyRaw, dutyCapCents) ELSE dutyRaw
      licenceFee == toCents(FMul(Num(c.licencePerAxle), Num(inp.axles)))
      insuranceBase == IF inp.includeInsuranceLines
                       THEN toCents(Num(c.insuranceBase))
                       ELSE 0
      insuranceGst == IF inp.includeInsuranceLines
                      THEN MathRound(FMul(FromInt(insuranceBase), Num(c.insuranceGstRate)))
                      ELSE 0
      insuranceDuty == IF inp.includeInsuranceLines
                       THEN MathRound(FMul(FromInt(insuranceBase), Num(c.insuranceDutyRate)))
                       ELSE 0
      recordingFee == IF inp.firstTimeLicensing THEN toCents(Num(c.recordingFee)) ELSE 0
      plateFee == IF inp.firstTimeLicensing THEN toCents(Num(c.plateFee)) ELSE 0
      inspectionFee ==
        IF inp.inspectionType = "initial" THEN toCents(Num(c.inspectionInitial))
        ELSE IF inp.inspectionType = "reinspection"
             THEN toCents(Num(c.inspectionReinspection))
             ELSE 0
      roadRegoSubtotal ==
        licenceFee + insuranceBase + insuranceGst + insuranceDuty
          + recordingFee + plateFee + inspectionFee
      totalOnRoad == roadRegoSubtotal + duty
  IN  [P                |-> P,
       gst              |-> gst,
       dutiable         |-> dutiable,
       dutyRaw          |-> dutyRaw,
       dutyCapCents     |-> dutyCapCents,
       duty             |-> duty,
       licenceFee       |-> licenceFee,
       insuranceBase    |-> insuranceBase,
       insuranceGst     |-> insuranceGst,
       insuranceDuty    |-> insuranceDuty,
       recordingFee     |-> recordingFee,
       plateFee         |-> plateFee,
       inspectionFee    |-> inspectionFee,
       roadRegoSubtotal |-> roadRegoSubtotal,
       totalOnRoad      |-> totalOnRoad]

Return(l) ==
  [gst              |-> fromCents(l.gst),
   dutiable         |-> fromCents(l.dutiable),
   duty             |-> fromCents(l.duty),
   licenceFee       |-> fromCents(l.licenceFee),
   insuranceBase    |-> fromCents(l.insuranceBase),
   insuranceGst     |-> fromCents(l.insuranceGst),
   insuranceDuty    |-> fromCents(l.insuranceDuty),
   recordingFee     |-> fromCents(l.recordingFee),
   plateFee         |-> fromCents(l.plateFee),
   inspectionFee    |-> fromCents(l.inspectionFee),
   roadRegoSubtotal |-> fromCents(l.roadRegoSubtotal),
   totalOnRoad      |-> fromCents(l.totalOnRoad)]

\* Variants of calculate, each with one slip in one line of the function.
calculateSubtotalSkipsInspection(inp, c) ==
  LET l == Locals(inp, c)
  IN  Return([l EXCEPT !.roadRegoSubtotal = @ - l.inspectionFee])

calculateTotalAddsGst(inp, c) ==
  LET l == Locals(inp, c)
  IN  Return([l EXCEPT !.totalOnRoad = @ + l.gst])

calculateInsuranceDutyOnGst(inp, c) ==
  LET l == Locals(inp, c)
      d == IF inp.includeInsuranceLines
           THEN MathRound(FMul(FromInt(l.insuranceBase + l.insuranceGst),
                               Num(c.insuranceDutyRate)))
           ELSE 0
  IN  Return([l EXCEPT !.insuranceDuty = d,
                       !.roadRegoSubtotal = @ - l.insuranceDuty + d,
                       !.totalOnRoad = @ - l.insuranceDuty + d])

calculatePlateFeeAlways(inp, c) ==
  LET l == Locals(inp, c)
      f == toCents(Num(c.plateFee))
  IN  Return([l EXCEPT !.plateFee = f,
                       !.roadRegoSubtotal = @ - l.plateFee + f,
                       !.totalOnRoad = @ - l.plateFee + f])

calculateReinspectionAddsInitial(inp, c) ==
  LET l == Locals(inp, c)
      f == IF inp.inspectionType = "reinspection"
           THEN l.inspectionFee + toCents(Num(c.inspectionInitial))
           ELSE l.inspectionFee
  IN  Return([l EXCEPT !.inspectionFee = f,
                       !.roadRegoSubtotal = @ - l.inspectionFee + f,
                       !.totalOnRoad = @ - l.inspectionFee + f])

calculateTotalSubtractsDuty(inp, c) ==
  LET l == Locals(inp, c)
  IN  Return([l EXCEPT !.totalOnRoad = l.roadRegoSubtotal - l.duty])

calculateNothingForZeroPrice(inp, c) ==
  LET l == Locals(inp, c)
  IN  IF l.P = 0
      THEN Return([f \in DOMAIN l |-> 0])
      ELSE Return(l)

\* The axle count forced into MinAxles..MaxAxles inside the function.
calculateClampsAxles(inp, c) ==
  LET n == inp.axles[1] \div inp.axles[2]
      a == IF n < MinAxles THEN MinAxles ELSE IF n > MaxAxles THEN MaxAxles ELSE n
  IN  Return(Locals([inp EXCEPT !.axles = <<a, 1>>], c))

\* Insurance lines charged at first-time licensing only.
calculateInsuranceAtFirstTimeOnly(inp, c) ==
  Return(Locals([inp EXCEPT !.includeInsuranceLines = @ /\ inp.firstTimeLicensing], c))

calculate(inp, c) == Return(Locals(inp, c))

CalcInput ==
  [priceExGst            : Prices,
   axles                 : Axles,
   includeGstInDuty      : BOOLEAN,
   applyDutyCap          : BOOLEAN,
   firstTimeLicensing    : BOOLEAN,
   includeInsuranceLines : BOOLEAN,
   inspectionType        : InspectionTypes]

NoOutput == [gst |-> Zero, dutiable |-> Zero, duty |-> Zero, licenceFee |-> Zero,
             insuranceBase |-> Zero, insuranceGst |-> Zero, insuranceDuty |-> Zero,
             recordingFee |-> Zero, plateFee |-> Zero, inspectionFee |-> Zero,
             roadRegoSubtotal |-> Zero, totalOnRoad |-> Zero]

\* Nothing has been written to the clipboard.
NoReport == <<>>

(***************************************************************************)
(* A call of calculate: the caller builds the input and picks the          *)
(* configuration, the function returns the breakdown.                      *)
(***************************************************************************)
Init ==
  /\ input \in CalcInput
  /\ cfg \in Configs
  /\ out = NoOutput
  /\ pc = "call"
  /\ form = InitialForm
  /\ clipboard = NoReport

Calculate ==
  /\ pc = "call"
  /\ out' = calculate(input, cfg)
  /\ pc' = "done"
  /\ UNCHANGED <<input, cfg, form, clipboard>>

Next == Calculate

Spec == Init /\ [][Next]_vars

(***************************************************************************)
(* Measures used by the properties: exact integer arithmetic, no doubles.  *)
(***************************************************************************)
Done == pc = "done"

\* The amount of a double in cents: the integer nearest to 100 times its
\* exact value.
InCents(x) == MathRound([x EXCEPT !.m = BigNorm(MulSmall(x.m, 100, 0))])

\* A literal with at most three decimals is a whole number of cents.
WholeCents(lit) == lit[2] <= 100 \/ lit[1] % (lit[2] \div 100) = 0

\* The cents of such a literal.
LitCents(lit) ==
  IF lit[2] <= 100 THEN lit[1] * (100 \div lit[2]) ELSE lit[1] \div (lit[2] \div 100)

\* The integer nearest to x * r for an integer x and a rate r = <<n, d>>,
\* an exact half going up.
RoundHalfUp(x, r) ==
  LET q   == x \div r[2]
      rem == x % r[2]
  IN  q * r[1] + (2 * rem * r[1] + r[2]) \div (2 * r[2])

NonNegativePrice == input.priceExGst[1] >= 0

InDomainAxles == input.axles[2] = 1 /\ input.axles[1] \in MinAxles..MaxAxles

TestInput(price, axles, gstInDuty, firstTime, insurance, inspection) ==
  [priceExGst            |-> <<price, 1>>,
   axles                 |-> <<axles, 1>>,
   includeGstInDuty      |-> gstInDuty,
   applyDutyCap          |-> TRUE,
   firstTimeLicensing    |-> firstTime,
   includeInsuranceLines |-> insurance,
   inspectionType        |-> inspection]

\* calculate(input): the second parameter takes its default.
calculateDefault(i) == calculate(i, DEFAULTS)

\* Two numbers of a dependency list are not the same value.
NotSameValue(x, y) == x # y /\ Num(x) # Num(y)

\* A dependency list of useMemo that leaves out inspectionType.
depsChangedButInspection(old, new) ==
  \/ NotSameValue(old.priceExGst, new.priceExGst)
  \/ NotSameValue(old.axles, new.axles)
  \/ old.includeGstInDuty # new.includeGstInDuty
  \/ old.applyDutyCap # new.applyDutyCap
  \/ old.firstTimeLicensing # new.firstTimeLicensing
  \/ old.includeInsuranceLines # new.includeInsuranceLines

\* The dependency list of useMemo: some dependency is not the same value as
\* at the previous render.
depsChanged(old, new) ==
  \/ NotSameValue(old.priceExGst, new.priceExGst)
  \/ NotSameValue(old.axles, new.axles)
  \/ old.includeGstInDuty # new.includeGstInDuty
  \/ old.applyDutyCap # new.applyDutyCap
  \/ old.firstTimeLicensing # new.firstTimeLicensing
  \/ old.includeInsuranceLines # new.includeInsuranceLines
  \/ old.inspectionType # new.inspectionType

\* useMemo: the stored value unless this is the first render or a dependency
\* changed.
useMemo(first, old, new, stored) ==
  IF first \/ depsChanged(old, new) THEN calculateDefault(new) ELSE stored

(***************************************************************************)
(* money and the report of copyBreakdown.  money prints a number with two  *)
(* decimals and thousands separators (the amounts printed here have at     *)
(* most two decimals, so no rounding mode of the formatter comes into      *)
(* play); a line is a label and the figures printed after it.              *)
(***************************************************************************)
RECURSIVE IntText(_)
IntText(n) ==
  IF n < 10 THEN <<DigitChars[n + 1]>>
  ELSE IntText(n \div 10) \o <<DigitChars[(n % 10) + 1]>>

Padded(n, width) ==
  LET t == IntText(n) IN [i \in 1..(width - Len(t)) |-> "0"] \o t

RECURSIVE Grouped(_)
Grouped(n) ==
  IF n < 1000 THEN IntText(n)
  ELSE Grouped(n \div 1000) \o <<",">> \o Padded(n % 1000, 3)

money(n) ==
  LET c == MathRound([n EXCEPT !.neg = FALSE, !.m = BigNorm(MulSmall(n.m, 100, 0))])
  IN  (IF n.neg /\ c # 0 THEN <<"-">> ELSE <<>>)
        \o <<"$">> \o Grouped(c \div 100) \o <<".">> \o Padded(c % 100, 2)

RECURSIVE Reduced(_)
Reduced(x) ==
  IF x[2] > 1 /\ x[1] % 10 = 0 THEN Reduced(<<x[1] \div 10, x[2] \div 10>>) ELSE x

RECURSIVE Digits(_)
Digits(d) == IF d <= 1 THEN 0 ELSE 1 + Digits(d \div 10)

\* A number in a template string.
NumberText(x) ==
  LET r == Reduced(x)
      a == Abs(r[1])
  IN  (IF r[1] < 0 THEN <<"-">> ELSE <<>>)
        \o IntText(a \div r[2])
        \o (IF r[2] = 1 THEN <<>> ELSE <<".">> \o Padded(a % r[2], Digits(r[2])))

Line(label, figures) == [label |-> label, figures |-> figures]

undefined == Line("undefined", <<>>)

IsString(l) == l # undefined

\* A report that prints the insurance line under the first-time toggle.
linesInsuranceUnderFirstTime(f, o) ==
  SelectSeq(
    <<Line("Asset price (ex-GST)", <<money(Num(parsedPrice(f.priceExGst)))>>),
      Line("Axles", <<NumberText(f.axles)>>),
      IF f.includeGstInDuty
      THEN Line("GST added to duty base", <<money(o.gst)>>)
      ELSE Line("GST added to duty base", <<<<"$", "0", ".", "0", "0">>>>),
      Line("Dutiable value", <<money(o.dutiable)>>),
      Line(IF f.applyDutyCap THEN "Stamp duty (3%, capped $12,000)" ELSE "Stamp duty (3%)",
           <<money(o.duty)>>),
      Line("Licence fee (572 per axle)", <<money(o.licenceFee)>>),
      IF f.firstTimeLicensing
      THEN Line("Insurance lines",
                <<money(o.insuranceBase), money(o.insuranceGst), money(o.insuranceDuty)>>)
      ELSE undefined,
      IF f.firstTimeLicensing THEN Line("Recording fee", <<money(o.recordingFee)>>)
                              ELSE undefined,
      IF f.firstTimeLicensing THEN Line("Plate fee", <<money(o.plateFee)>>) ELSE undefined,
      IF f.inspectionType # "none"
      THEN Line(IF f.inspectionType = "initial" THEN "Inspection fee (Initial)"
                                               ELSE "Inspection fee (Reinspection)",
                <<money(o.inspectionFee)>>)
      ELSE undefined,
      Line("Road rego subtotal", <<money(o.roadRegoSubtotal)>>),
      Line("TOTAL on-road", <<money(o.totalOnRoad)>>)>>,
    IsString)

\* const lines of copyBreakdown, before the join.
lines(f, o) ==
  SelectSeq(
    <<Line("Asset price (ex-GST)", <<money(Num(parsedPrice(f.priceExGst)))>>),
      Line("Axles", <<NumberText(f.axles)>>),
      IF f.includeGstInDuty
      THEN Line("GST added to duty base", <<money(o.gst)>>)
      ELSE Line("GST added to duty base", <<<<"$", "0", ".", "0", "0">>>>),
      Line("Dutiable value", <<money(o.dutiable)>>),
      Line(IF f.applyDutyCap THEN "Stamp duty (3%, capped $12,000)" ELSE "Stamp duty (3%)",
           <<money(o.duty)>>),
      Line("Licence fee (572 per axle)", <<money(o.licenceFee)>>),
      IF f.includeInsuranceLines
      THEN Line("Insurance lines",
                <<money(o.insuranceBase), money(o.insuranceGst), money(o.insuranceDuty)>>)
      ELSE undefined,
      IF f.firstTimeLicensing THEN Line("Recording fee", <<money(o.recordingFee)>>)
                              ELSE undefined,
      IF f.firstTimeLicensing THEN Line("Plate fee", <<money(o.plateFee)>>) ELSE undefined,
      IF f.inspectionType # "none"
      THEN Line(IF f.inspectionType = "initial" THEN "Inspection fee (Initial)"
                                               ELSE "Inspection fee (Reinspection)",
                <<money(o.inspectionFee)>>)
      ELSE undefined,
      Line("Road rego subtotal", <<money(o.roadRegoSubtotal)>>),
      Line("TOTAL on-road", <<money(o.totalOnRoad)>>)>>,
    IsString)

(***************************************************************************)
(* The form.  The component is mounted and rendered; then each event runs  *)
(* its handler, which sets state, and the component is rendered again      *)
(* before the next event is taken.  A render takes parsedPrice from the    *)
(* text and lets useMemo decide whether calculate runs.  input holds the   *)
(* arguments of the latest render, out the memoised breakdown.  The run is *)
(* followed up to the first Copy: no handler reads the clipboard.          *)
(***************************************************************************)
InitForm ==
  /\ form = InitialForm
  /\ input = FormInput(InitialForm)
  /\ cfg = DEFAULTS
  /\ out = NoOutput
  /\ pc = "mount"
  /\ clipboard = NoReport

\* The body of HTAxleCalc, run at mount and after every state change.
Render ==
  /\ pc \in {"mount", "render"}
  /\ input' = FormInput(form)
  /\ out' = useMemo(pc = "mount", input, input', out)
  /\ pc' = "form"
  /\ UNCHANGED <<cfg, form, clipboard>>

\* A handler has set the state to f.
SetState(f) ==
  /\ pc = "form"
  /\ form' = f
  /\ pc' = "render"
  /\ UNCHANGED <<input, cfg, out, clipboard>>

ChangePrice ==
  \E value \in PriceTexts :
    /\ value # form.priceExGst
    /\ SetState([form EXCEPT !.priceExGst = value])

ChangeAxles ==
  \E value \in AxleTexts :
    SetState([form EXCEPT !.axles = axlesOnChange(value)])

ClickPreset ==
  \E n \in Presets : SetState([form EXCEPT !.axles = <<n, 1>>])

ChangeIncludeGstInDuty ==
  SetState([form EXCEPT !.includeGstInDuty = ~@])

ChangeApplyDutyCap ==
  SetState([form EXCEPT !.applyDutyCap = ~@])

ChangeFirstTimeLicensing ==
  SetState([form EXCEPT !.firstTimeLicensing = ~@])

ChangeIncludeInsuranceLines ==
  SetState([form EXCEPT !.includeInsuranceLines = ~@])

ChangeInspectionType ==
  \E type \in InspectionTypes :
    /\ type # form.inspectionType
    /\ SetState([form EXCEPT !.inspectionType = type])

\* A Reset that puts the inspection back to none.
ClickResetInspectionNone ==
  SetState([ResetForm EXCEPT !.inspectionType = "none"])

ClickReset == SetState(ResetForm)

\* Copy breakdown: writeText may be refused, and the refusal is swallowed.
CopyBreakdown ==
  /\ pc = "form"
  /\ \E written \in BOOLEAN :
       clipboard' = IF written THEN lines(form, out) ELSE clipboard
  /\ pc' = "copied"
  /\ UNCHANGED <<input, cfg, out, form>>

NextForm ==
  \/ Render
  \/ ChangePrice
  \/ ChangeAxles
  \/ ClickPreset
  \/ ChangeIncludeGstInDuty
  \/ ChangeApplyDutyCap
  \/ ChangeFirstTimeLicensing
  \/ ChangeIncludeInsuranceLines
  \/ ChangeInspectionType
  \/ ClickReset
  \/ CopyBreakdown

SpecForm == InitForm /\ [][NextForm]_vars

(***************************************************************************)
(* Properties of calculate.                                                *)
(***************************************************************************)

\* C1: for every input, the returned roadRegoSubtotal is the sum of the seven
\* returned lines (licence fee, three insurance lines, recording fee, plate
\* fee, inspection fee), exactly to the cent.
C1_SubtotalIsSumOfLines ==
  Done =>
    InCents(out.roadRegoSubtotal)
      = InCents(out.licenceFee) + InCents(out.insuranceBase)
          + InCents(out.insuranceGst) + InCents(out.insuranceDuty)
          + InCents(out.recordingFee) + InCents(out.plateFee)
          + InCents(out.inspectionFee)

C1_Witness ==
  /\ Done
  /\ cfg = DEFAULTS
  /\ input = TestInput(75000, 3, TRUE, TRUE, TRUE, "initial")
  /\ InCents(out.inspectionFee) = 28400
  /\ InCents(out.roadRegoSubtotal) = 206010

\* C2: for every input, the returned totalOnRoad is roadRegoSubtotal + duty,
\* exactly to the cent: gst and dutiable are not added to the total.
C2_TotalIsSubtotalPlusDuty ==
  Done =>
    InCents(out.totalOnRoad) = InCents(out.roadRegoSubtotal) + InCents(out.duty)

C2_Witness ==
  /\ Done
  /\ cfg = DEFAULTS
  /\ input = TestInput(75000, 3, TRUE, TRUE, TRUE, "none")
  /\ InCents(out.gst) = 750000
  /\ InCents(out.duty) = 247500
  /\ InCents(out.totalOnRoad) = 425110

\* C3: when applyDutyCap is true and the price is not negative, the returned
\* duty is at most the configured dutyCap.
C3_DutyWithinCap ==
  (Done /\ input.applyDutyCap /\ NonNegativePrice) =>
    InCents(out.duty) <= LitCents(cfg.dutyCap)

C3_Witness ==
  /\ Done
  /\ cfg = DEFAULTS
  /\ input.applyDutyCap
  /\ input.priceExGst = <<1000000, 1>>
  /\ InCents(out.dutiable) = 110000000
  /\ InCents(out.duty) = 1200000

\* C4: for every price of a whole, non-negative number of cents P and every
\* rate configuration, gst is P * gstRate rounded to the cent (0 when GST is
\* not in the base), dutiable is P + gst, and duty is dutiable * dutyRate
\* rounded to the cent, cut at the cap (inclusive) when applyDutyCap is true
\* and uncut when it is false.
C4_DutyChainExact ==
  (Done /\ NonNegativePrice /\ WholeCents(input.priceExGst)) =>
    LET cents == LitCents(input.priceExGst)
        g     == IF input.includeGstInDuty THEN RoundHalfUp(cents, cfg.gstRate) ELSE 0
        raw   == RoundHalfUp(cents + g, cfg.dutyRate)
        cap   == LitCents(cfg.dutyCap)
    IN  /\ InCents(out.gst) = g
        /\ InCents(out.dutiable) = cents + g
        /\ InCents(out.duty) = IF input.applyDutyCap /\ cap < raw THEN cap ELSE raw

\* C5: under DEFAULTS the self-test scenarios return their expected figures.
C5_SelfTestScenarios ==
  (Done /\ cfg = DEFAULTS) =>
    /\ input = TestInput(75000, 3, TRUE, TRUE, FALSE, "none")
         => InCents(out.totalOnRoad) = 423345
    /\ input = TestInput(75000, 3, TRUE, TRUE, TRUE, "none")
         => InCents(out.totalOnRoad) = 425110
    /\ input = TestInput(1000000, 1, TRUE, TRUE, FALSE, "none")
         => InCents(out.duty) = 1200000 /\ InCents(out.totalOnRoad) = 1261445
    /\ input = TestInput(50000, 2, FALSE, TRUE, FALSE, "none")
         => InCents(out.duty) = 150000 /\ InCents(out.totalOnRoad) = 268645
    /\ input = TestInput(75000, 3, TRUE, TRUE, TRUE, "initial")
         => InCents(out.totalOnRoad) = 453510
    /\ input = TestInput(75000, 3, TRUE, TRUE, TRUE, "reinspection")
         => InCents(out.totalOnRoad) = 442310
    /\ input = TestInput(75000, 3, TRUE, FALSE, TRUE, "none")
         => InCents(out.totalOnRoad) = 420865

C5_Witness ==
  /\ Done
  /\ cfg = DEFAULTS
  /\ input = TestInput(75000, 3, TRUE, FALSE, TRUE, "none")
  /\ InCents(out.totalOnRoad) = 420865

\* C6: without includeInsuranceLines the three insurance lines are 0; with
\* it, insuranceBase is the configured base and insuranceGst, insuranceDuty
\* are the base times their rates, rounded to the cent, both taken from the
\* base alone: 14.59, 1.46 and 1.60 under DEFAULTS, whatever the price and
\* the axles.
C6_InsuranceLines ==
  Done =>
    LET base == LitCents(cfg.insuranceBase)
    IN  /\ ~input.includeInsuranceLines =>
             /\ InCents(out.insuranceBase) = 0
             /\ InCents(out.insuranceGst) = 0
             /\ InCents(out.insuranceDuty) = 0
        /\ input.includeInsuranceLines =>
             /\ InCents(out.insuranceBase) = base
             /\ InCents(out.insuranceGst) = RoundHalfUp(base, cfg.insuranceGstRate)
             /\ InCents(out.insuranceDuty) = RoundHalfUp(base, cfg.insuranceDutyRate)
        /\ (input.includeInsuranceLines /\ cfg = DEFAULTS) =>
             /\ InCents(out.insuranceBase) = 1459
             /\ InCents(out.insuranceGst) = 146
             /\ InCents(out.insuranceDuty) = 160

C6_Witness ==
  /\ Done
  /\ cfg = DEFAULTS
  /\ input.includeInsuranceLines
  /\ input.priceExGst = <<50000, 1>>
  /\ input.axles = <<9, 1>>
  /\ InCents(out.insuranceGst) = 146
  /\ InCents(out.insuranceDuty) = 160

\* C7: without firstTimeLicensing recordingFee and plateFee are 0; with it
\* they are the configured fees (10.45 and 32.00 under DEFAULTS), whatever
\* the price, the axles and the other toggles.
C7_FirstTimeFees ==
  Done =>
    /\ ~input.firstTimeLicensing =>
         InCents(out.recordingFee) = 0 /\ InCents(out.plateFee) = 0
    /\ input.firstTimeLicensing =>
         /\ InCents(out.recordingFee) = LitCents(cfg.recordingFee)
         /\ InCents(out.plateFee) = LitCents(cfg.plateFee)
    /\ (input.firstTimeLicensing /\ cfg = DEFAULTS) =>
         InCents(out.recordingFee) = 1045 /\ InCents(out.plateFee) = 3200

C7_Witness ==
  /\ Done
  /\ cfg = DEFAULTS
  /\ ~input.firstTimeLicensing
  /\ input.includeInsuranceLines
  /\ input.inspectionType = "reinspection"
  /\ InCents(out.plateFee) = 0
  /\ InCents(out.roadRegoSubtotal) > 0

\* C8: inspectionFee is 0 for "none", the configured initial fee for
\* "initial" and the configured reinspection fee for "reinspection" (284.00
\* and 172.00 under DEFAULTS), and never the sum of the two fees.
C8_OneInspectionFee ==
  Done =>
    LET initial      == LitCents(cfg.inspectionInitial)
        reinspection == LitCents(cfg.inspectionReinspection)
        fee          == InCents(out.inspectionFee)
    IN  /\ input.inspectionType = "none" => fee = 0
        /\ input.inspectionType = "initial" => fee = initial
        /\ input.inspectionType = "reinspection" => fee = reinspection
        /\ fee # initial + reinspection
        /\ cfg = DEFAULTS => fee \in {0, 28400, 17200}

C8_Witness ==
  /\ Done
  /\ cfg = DEFAULTS
  /\ input.inspectionType = "reinspection"
  /\ InCents(out.inspectionFee) = 17200

\* C9: under DEFAULTS, for a price that is not negative and 1 to 9 axles, none
\* of the twelve returned fields is negative.
C9_OutputNonNegative ==
  (Done /\ cfg = DEFAULTS /\ NonNegativePrice /\ InDomainAxles) =>
    \A f \in DOMAIN out : ~out[f].neg /\ InCents(out[f]) >= 0

C9_Witness ==
  /\ Done
  /\ cfg = DEFAULTS
  /\ input.priceExGst = <<1000000, 1>>
  /\ input.axles = <<1, 1>>
  /\ ~input.firstTimeLicensing
  /\ ~input.includeInsuranceLines
  /\ input.inspectionType = "none"
  /\ InCents(out.duty) > InCents(out.roadRegoSubtotal)

\* C10: for price 0, gst, dutiable and duty are 0, totalOnRoad equals
\* roadRegoSubtotal, and the seven lines of the subtotal are the ones the
\* same toggles and axles give for every other price.
C10_ZeroPrice ==
  (Done /\ input.priceExGst[1] = 0) =>
    /\ InCents(out.gst) = 0
    /\ InCents(out.dutiable) = 0
    /\ InCents(out.duty) = 0
    /\ InCents(out.totalOnRoad) = InCents(out.roadRegoSubtotal)
    /\ \A p \in Prices :
         LET o == calculate([input EXCEPT !.priceExGst = p], cfg)
         IN  /\ o.licenceFee = out.licenceFee
             /\ o.insuranceBase = out.insuranceBase
             /\ o.insuranceGst = out.insuranceGst
             /\ o.insuranceDuty = out.insuranceDuty
             /\ o.recordingFee = out.recordingFee
             /\ o.plateFee = out.plateFee
             /\ o.inspectionFee = out.inspectionFee
             /\ o.roadRegoSubtotal = out.roadRegoSubtotal

C10_Witness ==
  /\ Done
  /\ cfg = DEFAULTS
  /\ input = TestInput(0, 3, TRUE, TRUE, TRUE, "initial")
  /\ InCents(out.duty) = 0
  /\ InCents(out.totalOnRoad) = 206010

\* C11: calculate neither rejects nor clamps a value outside the declared
\* domain: for a negative price and for an axle count outside 1..9 it returns
\* an output whose licenceFee is licencePerAxle times the axles as given, and
\* in which roadRegoSubtotal is the sum of its seven lines and totalOnRoad is
\* roadRegoSubtotal + duty.
C11_OutOfDomainNotClamped ==
  (pc = "done" /\ (~NonNegativePrice \/ ~InDomainAxles)) =>
    /\ input.axles[2] = 1 =>
         InCents(out.licenceFee) = LitCents(cfg.licencePerAxle) * input.axles[1]
    /\ InCents(out.roadRegoSubtotal)
         = InCents(out.licenceFee) + InCents(out.insuranceBase)
             + InCents(out.insuranceGst) + InCents(out.insuranceDuty)
             + InCents(out.recordingFee) + InCents(out.plateFee)
             + InCents(out.inspectionFee)
    /\ InCents(out.totalOnRoad) = InCents(out.roadRegoSubtotal) + InCents(out.duty)

C11_Witness ==
  /\ pc = "done"
  /\ cfg = DEFAULTS
  /\ input.priceExGst = <<-10050, 100>>
  /\ input.axles = <<10, 1>>
  /\ input.includeGstInDuty
  /\ InCents(out.licenceFee) = 572000
  /\ InCents(out.duty) = -332

\* The integer nearest to n / d (d > 0), an exact half going away from zero.
RoundHalfAway(n, d) ==
  (IF n < 0 THEN -1 ELSE 1) * ((2 * Abs(n) + d) \div (2 * d))

\* C12: every rounding step takes the nearest whole cent, an exact half cent
\* going away from zero, for positive and negative amounts alike: under
\* DEFAULTS, with GST in the base, the price in cents is the price rounded
\* so, gst is a tenth of it rounded so, and the uncapped duty is 3% of the
\* dutiable value rounded so.
C12_RoundsHalfAwayFromZero ==
  (pc = "done" /\ cfg = DEFAULTS /\ input.includeGstInDuty) =>
    LET lit == input.priceExGst
        P   == IF lit[2] <= 100 THEN LitCents(lit)
               ELSE RoundHalfAway(lit[1], lit[2] \div 100)
        g   == RoundHalfAway(P * cfg.gstRate[1], cfg.gstRate[2])
    IN  /\ InCents(out.dutiable) - InCents(out.gst) = P
        /\ InCents(out.gst) = g
        /\ ~input.applyDutyCap =>
             InCents(out.duty)
               = RoundHalfAway((P + g) * cfg.dutyRate[1], cfg.dutyRate[2])

(***************************************************************************)
(* Properties of the form.                                                 *)
(***************************************************************************)

\* The component has been rendered for the current state of the form.
Rendered == pc \in {"form", "copied"}

\* C13: in every rendered state of the form the axles passed to calculate are
\* a whole number from 1 to 9.
C13_AxlesIntegerInRange ==
  Rendered =>
    /\ input.axles[2] > 0
    /\ input.axles[1] % input.axles[2] = 0
    /\ input.axles[1] \div input.axles[2] \in MinAxles..MaxAxles

\* C14: whatever the text of the price field, the price passed to calculate
\* is a number, not NaN and not negative, and it is 0 when the digits and
\* dots of the text do not make a number (no digit, or more than one dot).
C14_PriceNeverNegativeOrNaN ==
  Rendered =>
    LET text   == form.priceExGst
        dots   == Cardinality({i \in 1..Len(text) : text[i] = "."})
        digits == Cardinality({i \in 1..Len(text) : IsDigit(text[i])})
    IN  /\ input.priceExGst[2] > 0
        /\ input.priceExGst[1] >= 0
        /\ (digits = 0 \/ dots > 1) => input.priceExGst[1] = 0

C14_Witness ==
  /\ Rendered
  /\ form.priceExGst = <<"-", "5">>
  /\ input.priceExGst = <<5, 1>>
  /\ InCents(out.dutiable) = IF form.includeGstInDuty THEN 550 ELSE 500

\* C15: in every rendered state the memoised breakdown is calculate of the
\* current form values under DEFAULTS, whatever the events that led there.
C15_BreakdownIsCurrent ==
  Rendered => out = calculate(FormInput(form), DEFAULTS)

C15_Witness ==
  /\ Rendered
  /\ form = [InitialForm EXCEPT !.inspectionType = "reinspection"]
  /\ InCents(out.inspectionFee) = 17200
  /\ InCents(out.totalOnRoad) = 442310

\* C16: a click on Reset sets the form to price "0", 3 axles, the four toggles
\* on and the initial inspection; the render of that form passes price 0 and
\* 3 axles and shows duty 0.00 and a total of 2060.10; a click on Reset in
\* that state, and the render after it, change nothing shown.
C16_Reset ==
  [][/\ ClickReset => form' = ResetForm
     /\ (form = ResetForm /\ Render) =>
          /\ input'.priceExGst = <<0, 1>>
          /\ input'.axles = <<3, 1>>
          /\ InCents(out'.duty) = 0
          /\ InCents(out'.totalOnRoad) = 206010
     /\ (form = ResetForm /\ ClickReset) =>
          form' = form /\ input' = input /\ out' = out
     /\ (form = ResetForm /\ input = FormInput(ResetForm)
           /\ InCents(out.totalOnRoad) = 206010 /\ Render) =>
          input' = input /\ out' = out]_vars

C16_Witness ==
  /\ Rendered
  /\ form = ResetForm
  /\ input.priceExGst = <<0, 1>>
  /\ InCents(out.duty) = 0
  /\ InCents(out.totalOnRoad) = 206010

\* The cents a printed amount reads as.
FigureCents(text) ==
  (IF text[1] = "-" THEN -1 ELSE 1) * DigitsToInt(SelectSeq(text, IsDigit))

HasLine(label) == \E i \in 1..Len(clipboard) : clipboard[i].label = label

\* Figure k of the line with the label reads as the amount.
Shows(label, k, amount) ==
  \A i \in 1..Len(clipboard) :
    clipboard[i].label = label => FigureCents(clipboard[i].figures[k]) = InCents(amount)

\* C17: the copied report has the insurance line iff includeInsuranceLines,
\* the recording-fee and plate-fee lines iff firstTimeLicensing, the
\* inspection line iff inspectionType is not none, its eight other lines
\* always, and every printed output figure reads as the field of the
\* memoised breakdown it is labelled with.
C17_ReportFollowsOutput ==
  clipboard # NoReport =>
    /\ HasLine("Insurance lines") <=> form.includeInsuranceLines
    /\ HasLine("Recording fee") <=> form.firstTimeLicensing
    /\ HasLine("Plate fee") <=> form.firstTimeLicensing
    /\ HasLine("Inspection fee (Initial)") <=> form.inspectionType = "initial"
    /\ HasLine("Inspection fee (Reinspection)") <=> form.inspectionType = "reinspection"
    /\ Len(clipboard)
         = 8 + (IF form.includeInsuranceLines THEN 1 ELSE 0)
             + (IF form.firstTimeLicensing THEN 2 ELSE 0)
             + (IF form.inspectionType # "none" THEN 1 ELSE 0)
    /\ HasLine("GST added to duty base") /\ Shows("GST added to duty base", 1, out.gst)
    /\ HasLine("Dutiable value") /\ Shows("Dutiable value", 1, out.dutiable)
    /\ HasLine("Stamp duty (3%, capped $12,000)") <=> form.applyDutyCap
    /\ HasLine("Stamp duty (3%)") <=> ~form.applyDutyCap
    /\ Shows("Stamp duty (3%, capped $12,000)", 1, out.duty)
    /\ Shows("Stamp duty (3%)", 1, out.duty)
    /\ HasLine("Licence fee (572 per axle)")
    /\ Shows("Licence fee (572 per axle)", 1, out.licenceFee)
    /\ Shows("Insurance lines", 1, out.insuranceBase)
    /\ Shows("Insurance lines", 2, out.insuranceGst)
    /\ Shows("Insurance lines", 3, out.insuranceDuty)
    /\ Shows("Recording fee", 1, out.recordingFee)
    /\ Shows("Plate fee", 1, out.plateFee)
    /\ Shows("Inspection fee (Initial)", 1, out.inspectionFee)
    /\ Shows("Inspection fee (Reinspection)", 1, out.inspectionFee)
    /\ HasLine("Road rego subtotal") /\ Shows("Road rego subtotal", 1, out.roadRegoSubtotal)
    /\ HasLine("TOTAL on-road") /\ Shows("TOTAL on-road", 1, out.totalOnRoad)

C17_Witness ==
  /\ pc = "copied"
  /\ clipboard # NoReport
  /\ ~form.includeInsuranceLines
  /\ form.firstTimeLicensing
  /\ form.inspectionType = "none"
  /\ ~form.includeGstInDuty
  /\ Len(clipboard) = 10
  /\ HasLine("Plate fee")
  /\ ~HasLine("Insurance lines")

\* The fields in which two argument records of calculate differ.
ChangedInputs(old, new) ==
  {f \in DOMAIN old :
     IF f \in {"priceExGst", "axles"} THEN NotSameValue(old[f], new[f])
                                      ELSE old[f] # new[f]}

\* The output fields an input may change.
Affects(f) ==
  CASE f \in {"priceExGst", "includeGstInDuty"} ->
         {"gst", "dutiable", "duty", "totalOnRoad"}
    [] f = "applyDutyCap" -> {"duty", "totalOnRoad"}
    [] f = "includeInsuranceLines" ->
         {"insuranceBase", "insuranceGst", "insuranceDuty", "roadRegoSubtotal", "totalOnRoad"}
    [] f = "firstTimeLicensing" ->
         {"recordingFee", "plateFee", "roadRegoSubtotal", "totalOnRoad"}
    [] f = "inspectionType" -> {"inspectionFee", "roadRegoSubtotal", "totalOnRoad"}
    [] f = "axles" -> {"licenceFee", "roadRegoSubtotal", "totalOnRoad"}

\* C18: from one render to the next an output field changes only if an input
\* that affects it changed: applyDutyCap affects duty and totalOnRoad; the
\* insurance toggle the three insurance fields and the two sums, which move
\* by 17.65; firstTimeLicensing the recording fee, the plate fee and the two
\* sums, which move by 42.45; inspectionType the inspection fee and the two
\* sums; axles the licence fee and the two sums; the price and
\* includeGstInDuty neither roadRegoSubtotal nor any of its seven lines.
C18_FrameEffects ==
  [][(pc = "render" /\ pc' = "form") =>
       LET changed == ChangedInputs(input, input')
           moved(f) == Abs(InCents(out'[f]) - InCents(out[f]))
       IN  /\ \A o \in DOMAIN out :
                out'[o] # out[o] => \E f \in changed : o \in Affects(f)
           /\ changed = {"includeInsuranceLines"} =>
                moved("roadRegoSubtotal") = 1765 /\ moved("totalOnRoad") = 1765
           /\ changed = {"firstTimeLicensing"} =>
                moved("roadRegoSubtotal") = 4245 /\ moved("totalOnRoad") = 4245]_vars

C18_Witness ==
  /\ Rendered
  /\ form = [InitialForm EXCEPT !.priceExGst = <<"1", "0", "0", "0", "0", "0", "0", ".", "5", "0">>,
                                !.applyDutyCap = FALSE]
  /\ InCents(out.dutiable) = 110000055
  /\ InCents(out.duty) = 3300002
  /\ InCents(out.totalOnRoad) = 3300002 + 206010

====
